---- MODULE Spec2Model ----
(***************************************************************************)
(* FoldSelect (server.js): folders of uploaded images under ./uploads, a   *)
(* JSON document folders.json recording each folder's active flag, and the *)
(* HTTP handlers that create, list, toggle, upload to and delete folders.  *)
(*                                                                         *)
(* Strings are sequences of one-character strings, so that sanitization,   *)
(* path.extname and the allow-list tests are computed character by         *)
(* character, as the code computes them.                                   *)
(***************************************************************************)
EXTENDS Integers, Sequences, FiniteSets, TLC

VARIABLES
  dirs,        \* directories under ./uploads: name -> set of stored file names
  config,      \* folders.json, the "folders" object: own keys -> record
  protoActive, \* Object.prototype.active of the server process (truthy or not)
  clock,       \* Date.now(), in milliseconds since the server started
  req,         \* the requests in flight, one per connection slot
  deleted,     \* history: the folders deleted and not made again since
  others,      \* directories made elsewhere than directly under ./uploads:
               \* path -> set of stored file names
  jsonFile     \* folders.json on disk: "ok", "missing" or "garbled"

vars == <<dirs, config, protoActive, clock, req, deleted, others, jsonFile>>

----------------------------------------------------------------------------
(* Bounds of the exploration *)

\* the clock stops advancing after this many milliseconds
MaxClock == 1

\* an upload arrives only while fewer files than this are stored
MaxStored == 1

\* the longest folder name drawn as an input of sanitization
MaxLen == 3

----------------------------------------------------------------------------
(* Characters and strings *)

LowerCase == {"a","b","c","d","e","f","g","h","i","j","k","l","m",
              "n","o","p","q","r","s","t","u","v","w","x","y","z"}

UpperCase == {"A","B","C","D","E","F","G","H","I","J","K","L","M",
              "N","O","P","Q","R","S","T","U","V","W","X","Y","Z"}

DigitChars == {"0","1","2","3","4","5","6","7","8","9"}

\* \s of a JavaScript regular expression, and what String.prototype.trim removes
WhiteSpace == {" ", "\t", "\n", "\r"}

\* String.prototype.toLowerCase, one character
LowerOfUpper ==
  [c \in UpperCase |->
     CASE c = "A" -> "a" [] c = "B" -> "b" [] c = "C" -> "c" [] c = "D" -> "d"
       [] c = "E" -> "e" [] c = "F" -> "f" [] c = "G" -> "g" [] c = "H" -> "h"
       [] c = "I" -> "i" [] c = "J" -> "j" [] c = "K" -> "k" [] c = "L" -> "l"
       [] c = "M" -> "m" [] c = "N" -> "n" [] c = "O" -> "o" [] c = "P" -> "p"
       [] c = "Q" -> "q" [] c = "R" -> "r" [] c = "S" -> "s" [] c = "T" -> "t"
       [] c = "U" -> "u" [] c = "V" -> "v" [] c = "W" -> "w" [] c = "X" -> "x"
       [] c = "Y" -> "y" [] c = "Z" -> "z"]

ToLowerCase(s) ==
  [i \in 1..Len(s) |-> IF s[i] \in UpperCase THEN LowerOfUpper[s[i]] ELSE s[i]]

\* String.prototype.trim
RECURSIVE TrimLeft(_)
TrimLeft(s) ==
  IF s # <<>> /\ Head(s) \in WhiteSpace THEN TrimLeft(Tail(s)) ELSE s

RECURSIVE TrimRight(_)
TrimRight(s) ==
  IF s # <<>> /\ s[Len(s)] \in WhiteSpace
  THEN TrimRight(SubSeq(s, 1, Len(s) - 1))
  ELSE s

Trim(s) == TrimRight(TrimLeft(s))

\* the character class [a-zA-Z0-9-_\s] of the create handler
IsNameChar(c) ==
  c \in LowerCase \cup UpperCase \cup DigitChars \cup {"-", "_"} \cup WhiteSpace

\* a fault: the name is trimmed before the characters are removed
TrimFirst(s) == SelectSeq(Trim(s), IsNameChar)

\* folderName.replace(/[^a-zA-Z0-9-_\s]/g, '').trim()
Sanitize(s) == Trim(SelectSeq(s, IsNameChar))

\* whether t occurs in s (an unanchored RegExp.test of a literal)
Contains(s, t) ==
  \E i \in 1..(Len(s) - Len(t) + 1) : SubSeq(s, i, i + Len(t) - 1) = t

\* index of the last "." of s, 0 when there is none
LastDot(s) ==
  IF \E i \in 1..Len(s) : s[i] = "."
  THEN CHOOSE i \in 1..Len(s) :
         /\ s[i] = "."
         /\ \A j \in (i + 1)..Len(s) : s[j] # "."
  ELSE 0

\* path.extname of a file name without directory part: from the last "." to
\* the end, and empty when there is no "." or the only "." starts the name
ExtName(s) ==
  LET d == LastDot(s) IN
  IF d <= 1 THEN <<>> ELSE SubSeq(s, d, Len(s))

\* path.basename(s, ext) of a file name without directory part
BaseName(s, ext) ==
  IF /\ ext # <<>>
     /\ Len(s) > Len(ext)
     /\ SubSeq(s, Len(s) - Len(ext) + 1, Len(s)) = ext
  THEN SubSeq(s, 1, Len(s) - Len(ext))
  ELSE s

\* s.split('/'): the segments of a path
RECURSIVE Split(_)
Split(s) ==
  IF \A i \in 1..Len(s) : s[i] # "/" THEN <<s>>
  ELSE LET i == CHOOSE j \in 1..Len(s) :
                  s[j] = "/" /\ \A k \in 1..(j - 1) : s[k] # "/"
       IN <<SubSeq(s, 1, i - 1)>> \o Split(SubSeq(s, i + 1, Len(s)))

\* a place in the file system, seen from ./uploads: up directories above it,
\* then down the segments; path.normalize walks the segments of a path
RECURSIVE Walk(_, _)
Walk(at, segments) ==
  IF segments = <<>> THEN at
  ELSE LET seg == Head(segments)
           next == IF seg = <<>> \/ seg = <<".">> THEN at
                   ELSE IF seg = <<".", ".">>
                   THEN IF at.segs # <<>>
                        THEN [at EXCEPT !.segs = SubSeq(@, 1, Len(@) - 1)]
                        ELSE [at EXCEPT !.up = @ + 1]
                   ELSE [at EXCEPT !.segs = Append(@, seg)]
       IN Walk(next, Tail(segments))

UploadsName == <<"u","p","l","o","a","d","s">>

\* path.join('./uploads', name); a path that leaves ./uploads and comes
\* back through its name is a path inside it
Resolve(name) ==
  LET at == Walk([up |-> 0, segs |-> <<>>], Split(name)) IN
  IF at.up = 1 /\ at.segs # <<>> /\ Head(at.segs) = UploadsName
  THEN [up |-> 0, segs |-> Tail(at.segs)]
  ELSE at

\* the place is a directory directly under ./uploads
IsFolder(at) == at.up = 0 /\ Len(at.segs) = 1

FolderOf(at) == at.segs[1]

\* the place is the directory dir or is inside it
Below(at, dir) ==
  /\ at.up = dir.up
  /\ Len(at.segs) >= Len(dir.segs)
  /\ SubSeq(at.segs, 1, Len(dir.segs)) = dir.segs

\* ./folders.json, seen from ./uploads
ConfigPath ==
  [up |-> 1, segs |-> << <<"f","o","l","d","e","r","s",".","j","s","o","n">> >>]

\* a number in decimal, as a template literal prints it
RECURSIVE Decimal(_)
Decimal(n) ==
  LET d == <<"0","1","2","3","4","5","6","7","8","9">>[(n % 10) + 1] IN
  IF n < 10 THEN <<d>> ELSE Decimal(n \div 10) \o <<d>>

----------------------------------------------------------------------------
(* Names, records and the folders object *)

\* the key "__proto__": reading it from an object made by JSON.parse gives
\* Object.prototype, and assigning to it sets the object's prototype and
\* adds no own key
ProtoKey == <<"_","_","p","r","o","t","o","_","_">>

\* the 'default' of storage.destination
DefaultFolder == <<"d","e","f","a","u","l","t">>

\* null in a response (no folder name is empty)
Null == <<>>

\* an audit field that is not set
Unset == -1

\* { active: false, createdAt: new Date().toISOString() }
NewRecord(now) ==
  [active |-> FALSE, createdAt |-> now, activatedAt |-> Unset,
   deactivatedAt |-> Unset]

\* folders[name] is truthy: an own record, or an inherited member
Truthy(cfg, name) == name \in DOMAIN cfg \/ name = ProtoKey

\* folders[name].active || false, with folders[name] truthy or read with ?.
ActiveOf(cfg, name) ==
  IF name \in DOMAIN cfg THEN cfg[name].active
  ELSE IF name = ProtoKey THEN protoActive
  ELSE FALSE

\* folders[name] = rec
Assign(cfg, name, rec) ==
  IF name = ProtoKey THEN cfg
  ELSE [k \in DOMAIN cfg \cup {name} |-> IF k = name THEN rec ELSE cfg[k]]

\* Object.keys(folders).filter(k => folders[k].active)
ActiveKeys(cfg) == {k \in DOMAIN cfg : cfg[k].active}

\* { folders: {} }
EmptyDoc == [k \in {} |-> NewRecord(0)]

\* fs.readJsonSync(foldersConfigPath): the document, or an exception when
\* the file is missing or is not JSON
readJsonSync ==
  IF jsonFile = "ok" THEN [raised |-> FALSE, doc |-> config]
  ELSE [raised |-> TRUE, doc |-> EmptyDoc]

\* a fault: the exception of the read is not caught
Rethrow == readJsonSync

\* try { return fs.readJsonSync(...) } catch (error) { return { folders: {} } }
getFoldersConfig ==
  IF readJsonSync.raised THEN [raised |-> FALSE, doc |-> EmptyDoc]
  ELSE readJsonSync

\* the extensions the listings count as images
ListedExts ==
  { <<".","j","p","g">>, <<".","j","p","e","g">>, <<".","p","n","g">>,
    <<".","g","i","f">>, <<".","w","e","b","p">>, <<".","s","v","g">> }

\* files.filter(file => [...].includes(path.extname(file).toLowerCase()))
ImageFiles(files) == {f \in files : ToLowerCase(ExtName(f)) \in ListedExts}

\* { name, imageCount, images, active } of a listing; an image URL
\* /uploads/<item>/<file> is the pair of its folder and file name
Entry(item, files, isActive) ==
  [name |-> item,
   imageCount |-> Cardinality(ImageFiles(files)),
   images |-> {<<item, f>> : f \in ImageFiles(files)},
   active |-> isActive]

----------------------------------------------------------------------------
(* Requests *)

\* connection slots: requests that can be in flight at the same time
Procs == {1, 2}

FolderA == <<"a">>
FolderB == <<"b">>

\* folderName of a POST /api/folders body
CreateInputs ==
  { <<>>, <<" ">>, <<"!">>, FolderA, <<"a","!">>, <<" ","b">>, ProtoKey }

\* :folderName of the toggle and delete routes
ParamNames == {FolderA, FolderB, ProtoKey}

\* a response: the status and the fields of the JSON body
NoResponse ==
  [status |-> 0, text |-> "", entries |-> {}, active |-> FALSE,
   previousActive |-> Null, totalActiveFolders |-> 0, folderName |-> Null,
   files |-> <<>>, activeFolders |-> {}, activeFolder |-> Null,
   activeCount |-> 0]

IdleReq ==
  [kind |-> "none", pc |-> "idle", name |-> Null, cfg |-> EmptyDoc,
   todo |-> {}, cur |-> Null, files |-> {}, out |-> {},
   batch |-> <<>>, parts |-> <<>>, fieldFirst |-> TRUE, stored |-> <<>>,
   resp |-> NoResponse, met |-> {},
   before |-> [dirs |-> {}, config |-> EmptyDoc, files |-> [k \in {} |-> {}]]]

\* the other slots whose request has not been answered yet
Unanswered(p) == {q \in Procs \ {p} : req[q].pc \notin {"idle", "done"}}

\* request r is in slot p from now on; history: the requests in flight with
\* it, unanswered, have met it and it has met them; the directories under
\* ./uploads and the document it found are kept, when snapshots are taken
Accept(p, r) ==
  req' = [q \in Procs |->
            IF q = p
            THEN [r EXCEPT !.met = Unanswered(p),
                           !.before = IF deleted.snapshots
                                      THEN [dirs |-> DOMAIN dirs,
                                            config |-> config,
                                            files |-> dirs]
                                      ELSE IdleReq.before]
            ELSE IF q \in Unanswered(p) THEN [req[q] EXCEPT !.met = @ \cup {p}]
            ELSE req[q]]

\* res.status(status).json(...) of request p
Answer(p, status, text) ==
  [NoResponse EXCEPT !.status = status, !.text = text]

\* the handler has answered: the request keeps its kind, its parameters and
\* the response until the connection is closed
Finish(p, response) ==
  req' = [req EXCEPT ![p] = [IdleReq EXCEPT !.kind = req[p].kind,
                                            !.name = req[p].name,
                                            !.fieldFirst = req[p].fieldFirst,
                                            !.batch = req[p].batch,
                                            !.met = req[p].met,
                                            !.before = req[p].before,
                                            !.pc = "done",
                                            !.resp = response]]

\* the response has been sent and the slot is free again
Close(p) ==
  /\ req[p].pc = "done"
  /\ req' = [q \in Procs |->
               IF q = p THEN IdleReq ELSE [req[q] EXCEPT !.met = @ \ {p}]]
  /\ UNCHANGED <<dirs, config, protoActive, clock>>
  /\ UNCHANGED <<deleted, others, jsonFile>>

\* history: a successful delete of name is recorded, when deletions are followed
Deleted(name) ==
  deleted' = IF deleted.follow
             THEN [deleted EXCEPT !.names = @ \cup {name}]
             ELSE deleted

\* history: the directories in made exist (again)
Made(made) == deleted' = [deleted EXCEPT !.names = @ \ made]

AllIdle == \A p \in Procs : req[p].pc = "idle"

\* a request arrives and waits for its handler to be run
Arrive(p, kind, name) ==
  /\ req[p].pc = "idle"
  /\ Accept(p, [IdleReq EXCEPT !.kind = kind, !.pc = "start", !.name = name])
  /\ UNCHANGED <<dirs, config, protoActive, clock, deleted, others, jsonFile>>

\* Date.now() moves on
Tick ==
  /\ clock < MaxClock
  /\ clock' = clock + 1
  /\ UNCHANGED <<dirs, config, protoActive, req, deleted, others, jsonFile>>

----------------------------------------------------------------------------
(* PATCH /api/folders/:folderName/toggle *)

\* a fault: the other records are left as they are
KeepOthers(cfg, name, now) == cfg

\* a fault: the activation is not written to the record
SkipActivate(cfg, name, now) == cfg

\* a fault: the forEach of the activating branch run when deactivating
DeactivateStampingAll(cfg, name, now) ==
  [k \in DOMAIN cfg |->
     [cfg[k] EXCEPT !.active = FALSE, !.deactivatedAt = now]]

\* a fault: only the previously active record is looked at, and it is kept
\* active while its deactivatedAt is stamped
StampOnly(cfg, name, now) ==
  [k \in DOMAIN cfg |->
     IF k # name THEN [cfg[k] EXCEPT !.deactivatedAt = now] ELSE cfg[k]]

\* Object.keys(folders).forEach: every record inactive, and deactivatedAt
\* stamped on every record but the toggled one
DeactivateAll(cfg, name, now) ==
  [k \in DOMAIN cfg |->
     IF k # name
     THEN [cfg[k] EXCEPT !.active = FALSE, !.deactivatedAt = now]
     ELSE [cfg[k] EXCEPT !.active = FALSE]]

\* folders[name].active = true; folders[name].activatedAt = now
\* (written to Object.prototype when folders[name] is inherited)
Activate(cfg, name, now) ==
  IF name \in DOMAIN cfg
  THEN [cfg EXCEPT ![name] = [@ EXCEPT !.active = TRUE, !.activatedAt = now]]
  ELSE cfg

\* folders[name].active = false; folders[name].deactivatedAt = now
Deactivate(cfg, name, now) ==
  IF name \in DOMAIN cfg
  THEN [cfg EXCEPT ![name] = [@ EXCEPT !.active = FALSE, !.deactivatedAt = now]]
  ELSE cfg

\* the record the handler adds for a name that has none
EnsureRecord(cfg, name, now) ==
  IF Truthy(cfg, name) THEN cfg ELSE Assign(cfg, name, NewRecord(now))

\* the handler has no await: it reads, changes and saves the document in one
\* turn of the event loop
Toggle(p) ==
  /\ req[p].pc = "start" /\ req[p].kind = "toggle"
  /\ LET name == req[p].name
         cfg1 == EnsureRecord(getFoldersConfig.doc, name, clock)
     IN
     IF getFoldersConfig.raised
     THEN \* catch (error)
       /\ UNCHANGED <<config, protoActive, jsonFile>>
       /\ Finish(p, Answer(p, 500, "Failed to toggle folder status"))
     ELSE IF ~ActiveOf(cfg1, name)
     THEN \* activating
       \E prev \in (IF ActiveKeys(cfg1) = {} THEN {Null} ELSE ActiveKeys(cfg1)) :
         LET cfg2 == Activate(DeactivateAll(cfg1, name, clock), name, clock)
         IN
         /\ config' = cfg2
         /\ jsonFile' = "ok"
         /\ protoActive' = IF name \in DOMAIN cfg2 THEN protoActive ELSE TRUE
         /\ Finish(p, [Answer(p, 200, "activated") EXCEPT
                         !.folderName = name, !.active = TRUE,
                         !.previousActive = prev,
                         !.totalActiveFolders = Cardinality(ActiveKeys(cfg2))])
     ELSE \* deactivating
       /\ config' = Deactivate(cfg1, name, clock)
       /\ jsonFile' = "ok"
       /\ protoActive' = IF name \in DOMAIN cfg1 THEN protoActive ELSE FALSE
       /\ Finish(p, [Answer(p, 200, "deactivated") EXCEPT
                       !.folderName = name, !.active = FALSE])
  /\ UNCHANGED <<dirs, clock>>
  /\ UNCHANGED <<deleted, others>>

----------------------------------------------------------------------------
(* GET /api/folders/current-active *)

\* the handler has no await; activeFolders[0] is the first active key in the
\* order of the document
CurrentActive(p) ==
  /\ req[p].pc = "start" /\ req[p].kind = "current"
  /\ IF getFoldersConfig.raised
     THEN Finish(p, Answer(p, 500, "Failed to get active folder"))
     ELSE LET activeFolders == ActiveKeys(getFoldersConfig.doc) IN
          \E first \in (IF activeFolders = {} THEN {Null} ELSE activeFolders) :
            Finish(p, [Answer(p, 200, "current-active") EXCEPT
                         !.activeFolders = activeFolders,
                         !.activeFolder = first,
                         !.activeCount = Cardinality(activeFolders)])
  /\ UNCHANGED <<dirs, config, protoActive, clock>>
  /\ UNCHANGED <<deleted, others, jsonFile>>

----------------------------------------------------------------------------
(* POST /api/folders *)

\* the handler up to its first await: the checks of the name
CreateStart(p) ==
  /\ req[p].pc = "start" /\ req[p].kind = "create"
  /\ LET folderName == req[p].name IN
     IF folderName = <<>> \/ Trim(folderName) = <<>>
     THEN Finish(p, Answer(p, 400, "Folder name is required"))
     ELSE IF Sanitize(folderName) = <<>>
     THEN Finish(p, Answer(p, 400, "Invalid folder name"))
     ELSE /\ req' = [req EXCEPT ![p].pc = "cr_exists"]
  /\ UNCHANGED <<dirs, config, protoActive, clock>>
  /\ UNCHANGED <<deleted, others, jsonFile>>

\* await fs.pathExists(folderPath)
CreateExists(p) ==
  /\ req[p].pc = "cr_exists"
  /\ IF Sanitize(req[p].name) \in DOMAIN dirs
     THEN Finish(p, Answer(p, 400, "Folder already exists"))
     ELSE /\ req' = [req EXCEPT ![p].pc = "cr_mkdir"]
  /\ UNCHANGED <<dirs, config, protoActive, clock>>
  /\ UNCHANGED <<deleted, others, jsonFile>>

\* fs.ensureDir / fs.ensureDirSync: the directory is made unless it is there
EnsureDir(d, name) ==
  IF name \in DOMAIN d THEN d
  ELSE [k \in DOMAIN d \cup {name} |-> IF k = name THEN {} ELSE d[k]]

\* await fs.ensureDir(folderPath)
CreateMkdir(p) ==
  /\ req[p].pc = "cr_mkdir"
  /\ dirs' = EnsureDir(dirs, Sanitize(req[p].name))
  /\ req' = [req EXCEPT ![p].pc = "cr_save"]
  /\ UNCHANGED <<config, protoActive, clock, others, jsonFile>>
  /\ Made(DOMAIN dirs')

\* the record is written over whatever the document holds for the name
CreateSave(p) ==
  /\ req[p].pc = "cr_save"
  /\ LET sanitizedName == Sanitize(req[p].name) IN
     IF getFoldersConfig.raised
     THEN \* catch (error)
       /\ UNCHANGED <<config, jsonFile>>
       /\ Finish(p, Answer(p, 500, "Failed to create folder"))
     ELSE
       /\ config' = Assign(getFoldersConfig.doc, sanitizedName, NewRecord(clock))
       /\ jsonFile' = "ok"
       /\ Finish(p, [Answer(p, 200, "Folder created successfully") EXCEPT
                       !.folderName = sanitizedName])
  /\ UNCHANGED <<dirs, protoActive, clock>>
  /\ UNCHANGED <<deleted, others>>

----------------------------------------------------------------------------
(* DELETE /api/folders/:folderName *)

\* fs.pathExists, for a folder, for folders.json and for any other place
\* but ./uploads itself and the directories above it
PathExists(at) ==
  IF IsFolder(at) THEN FolderOf(at) \in DOMAIN dirs
  ELSE IF at = ConfigPath THEN jsonFile # "missing"
  ELSE at \in DOMAIN others

\* await fs.pathExists(folderPath)
DeleteExists(p) ==
  /\ req[p].pc = "start" /\ req[p].kind = "delete"
  /\ IF PathExists(Resolve(req[p].name))
     THEN /\ req' = [req EXCEPT ![p].pc = "dl_remove"]
     ELSE Finish(p, Answer(p, 404, "Folder not found"))
  /\ UNCHANGED <<dirs, config, protoActive, clock>>
  /\ UNCHANGED <<deleted, others, jsonFile>>

\* a fault: the directory is left in place
KeepDir(d, name) == d

\* fs.remove: the directory and what is in it
RemoveDir(d, name) == [k \in DOMAIN d \ {name} |-> d[k]]

\* await fs.remove(folderPath), then the answer; folders.json is not touched
DeleteRemove(p) ==
  /\ req[p].pc = "dl_remove"
  /\ LET at == Resolve(req[p].name) IN
     /\ dirs' = IF IsFolder(at) THEN RemoveDir(dirs, FolderOf(at)) ELSE dirs
     /\ others' = [k \in {o \in DOMAIN others : ~Below(o, at)} |-> others[k]]
     /\ jsonFile' = IF at = ConfigPath THEN "missing" ELSE jsonFile
     /\ IF IsFolder(at) THEN Deleted(FolderOf(at)) ELSE UNCHANGED deleted
  /\ Finish(p, Answer(p, 200, "Folder deleted successfully"))
  /\ UNCHANGED <<config, protoActive, clock>>

----------------------------------------------------------------------------
(* GET /api/folders *)

\* const foldersConfig = getFoldersConfig(), kept for the whole request
ListStart(p) ==
  /\ req[p].pc = "start" /\ req[p].kind = "list"
  /\ IF getFoldersConfig.raised
     THEN Finish(p, Answer(p, 500, "Failed to read folders"))
     ELSE req' = [req EXCEPT ![p].cfg = getFoldersConfig.doc,
                             ![p].pc = "ls_readdir"]
  /\ UNCHANGED <<dirs, config, protoActive, clock>>
  /\ UNCHANGED <<deleted, others, jsonFile>>

\* await fs.readdir(uploadsDir)
ListReaddir(p) ==
  /\ req[p].pc = "ls_readdir"
  /\ IF DOMAIN dirs = {}
     THEN Finish(p, Answer(p, 200, "folders"))
     ELSE /\ req' = [req EXCEPT ![p].todo = DOMAIN dirs, ![p].pc = "ls_stat"]
  /\ UNCHANGED <<dirs, config, protoActive, clock>>
  /\ UNCHANGED <<deleted, others, jsonFile>>

\* await fs.stat(itemPath) of the next item (readdir gives them in an order
\* of the file system's choosing)
ListStat(p) ==
  /\ req[p].pc = "ls_stat"
  /\ \E item \in req[p].todo :
       IF item \in DOMAIN dirs
       THEN /\ req' = [req EXCEPT ![p].cur = item,
                                  ![p].todo = req[p].todo \ {item},
                                  ![p].pc = "ls_files"]
       ELSE Finish(p, Answer(p, 500, "Failed to read folders"))
  /\ UNCHANGED <<dirs, config, protoActive, clock>>
  /\ UNCHANGED <<deleted, others, jsonFile>>

\* await fs.readdir(itemPath)
ListFiles(p) ==
  /\ req[p].pc = "ls_files"
  /\ IF req[p].cur \in DOMAIN dirs
     THEN /\ req' = [req EXCEPT ![p].files = dirs[req[p].cur],
                                ![p].pc = "ls_push"]
     ELSE Finish(p, Answer(p, 500, "Failed to read folders"))
  /\ UNCHANGED <<dirs, config, protoActive, clock>>
  /\ UNCHANGED <<deleted, others, jsonFile>>

\* the request's own document with a record added for a directory that has
\* none
Backfill(cfg, item, now) ==
  IF Truthy(cfg, item) THEN cfg ELSE Assign(cfg, item, NewRecord(now))

\* the rest of the loop body: the record is added to the request's own copy
\* of the document, which is then saved whole, and the entry is pushed
ListPush(p) ==
  /\ req[p].pc = "ls_push"
  /\ LET item == req[p].cur
         cfg1 == Backfill(req[p].cfg, item, clock)
         out1 == req[p].out \cup {Entry(item, req[p].files, ActiveOf(cfg1, item))}
     IN
     /\ config' = IF Truthy(req[p].cfg, item) THEN config ELSE cfg1
     /\ jsonFile' = IF Truthy(req[p].cfg, item) THEN jsonFile ELSE "ok"
     /\ IF req[p].todo = {}
        THEN Finish(p, [Answer(p, 200, "folders") EXCEPT !.entries = out1])
        ELSE /\ req' = [req EXCEPT ![p].cfg = cfg1, ![p].out = out1,
                                   ![p].cur = Null, ![p].files = {},
                                   ![p].pc = "ls_stat"]
  /\ UNCHANGED <<dirs, protoActive, clock>>
  /\ UNCHANGED <<deleted, others>>

----------------------------------------------------------------------------
(* GET /api/folders/active *)

ActiveStart(p) ==
  /\ req[p].pc = "start" /\ req[p].kind = "active"
  /\ IF getFoldersConfig.raised
     THEN Finish(p, Answer(p, 500, "Failed to read active folders"))
     ELSE req' = [req EXCEPT ![p].cfg = getFoldersConfig.doc,
                             ![p].pc = "ac_readdir"]
  /\ UNCHANGED <<dirs, config, protoActive, clock>>
  /\ UNCHANGED <<deleted, others, jsonFile>>

ActiveReaddir(p) ==
  /\ req[p].pc = "ac_readdir"
  /\ IF DOMAIN dirs = {}
     THEN Finish(p, Answer(p, 200, "folders"))
     ELSE /\ req' = [req EXCEPT ![p].todo = DOMAIN dirs, ![p].pc = "ac_stat"]
  /\ UNCHANGED <<dirs, config, protoActive, clock>>
  /\ UNCHANGED <<deleted, others, jsonFile>>

\* await fs.stat(itemPath); a folder that is not active is skipped
ActiveStat(p) ==
  /\ req[p].pc = "ac_stat"
  /\ \E item \in req[p].todo :
       LET rest == req[p].todo \ {item} IN
       IF item \notin DOMAIN dirs
       THEN Finish(p, Answer(p, 500, "Failed to read active folders"))
       ELSE IF ActiveOf(req[p].cfg, item)
       THEN /\ req' = [req EXCEPT ![p].cur = item, ![p].todo = rest,
                                  ![p].pc = "ac_files"]
       ELSE IF rest = {}
       THEN Finish(p, [Answer(p, 200, "folders") EXCEPT !.entries = req[p].out])
       ELSE /\ req' = [req EXCEPT ![p].todo = rest]
  /\ UNCHANGED <<dirs, config, protoActive, clock>>
  /\ UNCHANGED <<deleted, others, jsonFile>>

\* await fs.readdir(itemPath), and the entry is pushed
ActiveFiles(p) ==
  /\ req[p].pc = "ac_files"
  /\ IF req[p].cur \notin DOMAIN dirs
     THEN Finish(p, Answer(p, 500, "Failed to read active folders"))
     ELSE LET out1 == req[p].out \cup {Entry(req[p].cur, dirs[req[p].cur], TRUE)}
          IN
          IF req[p].todo = {}
          THEN Finish(p, [Answer(p, 200, "folders") EXCEPT !.entries = out1])
          ELSE /\ req' = [req EXCEPT ![p].out = out1, ![p].cur = Null,
                                     ![p].pc = "ac_stat"]
  /\ UNCHANGED <<dirs, config, protoActive, clock>>
  /\ UNCHANGED <<deleted, others, jsonFile>>

----------------------------------------------------------------------------
(* POST /api/upload: multer's disk storage, the file filter and the handler *)

\* upload.array('images', 10)
FileCountLimit == 10

\* limits.fileSize
FileSizeLimit == 10 * 1024 * 1024

\* allowedTypes = /jpeg|jpg|png|gif|webp|svg/
AllowedTypes ==
  { <<"j","p","e","g">>, <<"j","p","g">>, <<"p","n","g">>,
    <<"g","i","f">>, <<"w","e","b","p">>, <<"s","v","g">> }

\* allowedTypes.test(s): the pattern has no anchors
AllowedTypesTest(s) == \E t \in AllowedTypes : Contains(s, t)

\* fileFilter: the extension of the original name, lower-cased, and the
\* declared content type both pass the pattern
FileFilter(file) ==
  /\ AllowedTypesTest(ToLowerCase(ExtName(file.originalname)))
  /\ AllowedTypesTest(file.mimetype)

\* storage.destination: req.body holds the fields that came before the file
Destination(folderField) ==
  IF folderField = <<>> THEN DefaultFolder ELSE folderField

\* storage.filename: `${name}_${timestamp}${ext}`
StoredName(originalname, now) ==
  LET ext == ExtName(originalname) IN
  BaseName(originalname, ext) \o <<"_">> \o Decimal(now) \o ext

\* file parts: original name, declared content type, size in bytes
ImagePng ==
  [originalname |-> <<"x",".","p","n","g">>, mimetype |-> <<"i","m","a","g","e","/","p","n","g">>, size |-> 2 * 1024 * 1024]
ImageUpper ==
  [originalname |-> <<"x",".","P","N","G">>, mimetype |-> <<"i","m","a","g","e","/","p","n","g">>, size |-> 2 * 1024 * 1024]
ImageOdd ==
  [originalname |-> <<"x",".","p","n","g","x">>, mimetype |-> <<"i","m","a","g","e","/","p","n","g">>, size |-> 2 * 1024 * 1024]
PlainPng ==
  [originalname |-> <<"x",".","p","n","g">>, mimetype |-> <<"t","e","x","t","/","p","l","a","i","n">>, size |-> 2 * 1024 * 1024]
TextFile ==
  [originalname |-> <<"x",".","t","x","t">>, mimetype |-> <<"i","m","a","g","e","/","p","n","g">>, size |-> 2 * 1024 * 1024]
BigPng ==
  [originalname |-> <<"x",".","p","n","g">>, mimetype |-> <<"i","m","a","g","e","/","p","n","g">>, size |-> FileSizeLimit + 1]

\* the file parts of one call, in the order of the multipart body
UploadBatches ==
  { <<>>, <<ImagePng>>, <<ImagePng, ImagePng>>, <<ImageUpper, ImageOdd>>,
    <<ImagePng, PlainPng>>, <<TextFile>>, <<ImagePng, BigPng>>,
    [i \in 1..(FileCountLimit + 1) |-> ImagePng] }

\* the uploads of the folder workload
SmallBatches == { <<ImageUpper, ImageOdd>> }

\* the folderName field of an upload
UploadFolders == {FolderA, FolderB}

\* the number of files stored under ./uploads
RECURSIVE StoredCountOf(_, _)
StoredCountOf(d, names) ==
  IF names = {} THEN 0
  ELSE LET n == CHOOSE x \in names : TRUE IN
       Cardinality(d[n]) + StoredCountOf(d, names \ {n})

StoredCount(d) == StoredCountOf(d, DOMAIN d)

\* an upload arrives: the folderName field before or after the file parts
ArriveUpload(p, name, first, batch) ==
  /\ req[p].pc = "idle"
  /\ StoredCount(dirs) + StoredCount(others) < MaxStored
  /\ Accept(p, [IdleReq EXCEPT !.kind = "upload", !.pc = "start",
                               !.name = name, !.fieldFirst = first,
                               !.batch = batch, !.parts = batch])
  /\ UNCHANGED <<dirs, config, protoActive, clock, deleted, others, jsonFile>>

\* the file is written into its folder, over a file of the same name
WriteFile(d, dest, fname) ==
  LET d1 == EnsureDir(d, dest) IN [d1 EXCEPT ![dest] = @ \cup {fname}]

\* the destination is made with the directories above it, and the file
\* written into it: [dirs, others] afterwards
WriteAt(d, o, at, fname) ==
  IF IsFolder(at)
  THEN [dirs |-> WriteFile(d, FolderOf(at), fname), others |-> o]
  ELSE [dirs |-> IF at.up = 0 /\ at.segs # <<>>
                 THEN EnsureDir(d, Head(at.segs)) ELSE d,
        others |-> WriteFile(o, at, fname)]

\* multer removes the files of a call that ends with an error
RemoveUploaded(d, stored) ==
  [k \in DOMAIN d |->
     d[k] \ {stored[i].filename :
               i \in {j \in 1..Len(stored) :
                        IsFolder(stored[j].at) /\ FolderOf(stored[j].at) = k}}]

RemoveUploadedAt(o, stored) ==
  [k \in DOMAIN o |->
     o[k] \ {stored[i].filename :
               i \in {j \in 1..Len(stored) :
                        ~IsFolder(stored[j].at) /\ stored[j].at = k}}]

\* the error handling middleware: status and message for an error
ErrorResponse(err) ==
  IF err = "LIMIT_FILE_SIZE" THEN <<400, "File size too large">>
  ELSE IF err = "Only image files are allowed!"
  THEN <<400, "Only image files are allowed">>
  ELSE <<500, "Something went wrong!">>

\* the call ends with an error: its files are removed, the middleware answers
UploadAbort(p, disk, stored, err) ==
  /\ dirs' = RemoveUploaded(disk.dirs, stored)
  /\ others' = RemoveUploadedAt(disk.others, stored)
  /\ Finish(p, Answer(p, ErrorResponse(err)[1], ErrorResponse(err)[2]))

\* the next file part of the body: the count limit of upload.array, the file
\* filter, then destination, filename and the write, cut at the size limit
UploadPart(p) ==
  /\ req[p].kind = "upload" /\ req[p].pc \in {"start", "up_part"}
  /\ req[p].parts # <<>>
  /\ LET file == Head(req[p].parts)
         field == IF req[p].fieldFirst THEN req[p].name ELSE <<>>
         at == Resolve(Destination(field))
         fname == StoredName(file.originalname, clock)
         info == [at |-> at, filename |-> fname,
                  originalname |-> file.originalname, size |-> file.size]
         now == [dirs |-> dirs, others |-> others]
         written == WriteAt(dirs, others, at, fname)
     IN
     IF Len(req[p].stored) >= FileCountLimit
     THEN UploadAbort(p, now, req[p].stored, "LIMIT_UNEXPECTED_FILE")
     ELSE IF ~FileFilter(file)
     THEN UploadAbort(p, now, req[p].stored, "Only image files are allowed!")
     ELSE IF file.size > FileSizeLimit
     THEN UploadAbort(p, written, Append(req[p].stored, info),
                      "LIMIT_FILE_SIZE")
     ELSE /\ dirs' = written.dirs
          /\ others' = written.others
          /\ req' = [req EXCEPT ![p].parts = Tail(req[p].parts),
                                ![p].stored = Append(req[p].stored, info),
                                ![p].pc = "up_part"]
  /\ UNCHANGED <<config, protoActive, clock, jsonFile>>
  /\ Made(DOMAIN dirs')

\* the route handler, run when the whole body was read without an error
UploadDone(p) ==
  /\ req[p].kind = "upload" /\ req[p].pc \in {"start", "up_part"}
  /\ req[p].parts = <<>>
  /\ LET folderName == req[p].name
         stored == req[p].stored
     IN
     IF stored = <<>>
     THEN Finish(p, Answer(p, 400, "No files uploaded"))
     ELSE Finish(p, [Answer(p, 200, "Files uploaded successfully") EXCEPT
                       !.folderName = folderName,
                       !.files = [i \in 1..Len(stored) |->
                                    [originalName |-> stored[i].originalname,
                                     filename |-> stored[i].filename,
                                     path |-> <<folderName, stored[i].filename>>,
                                     size |-> stored[i].size]]])
  /\ UNCHANGED <<dirs, config, protoActive, clock>>
  /\ UNCHANGED <<deleted, others, jsonFile>>

----------------------------------------------------------------------------
(* The server *)

\* ./uploads exists and is empty; folders.json holds { folders: {} }
Started(follow, snapshots) ==
  /\ dirs = [k \in {} |-> {}]
  /\ config = EmptyDoc
  /\ protoActive = FALSE
  /\ clock = 0
  /\ req = [p \in Procs |-> IdleReq]
  /\ deleted = [follow |-> follow, names |-> {}, snapshots |-> snapshots]
  /\ others = [k \in {} |-> {}]
  /\ jsonFile = "ok"

Init == Started(FALSE, FALSE)

\* the same server, with the history of deletions kept
FollowInit == Started(TRUE, FALSE)

\* the same server, with the state each request found kept
SnapshotInit == Started(FALSE, TRUE)

\* a request for the folder routes arrives at slot p
FolderRequest(p) ==
  \/ Arrive(p, "list", Null)
  \/ Arrive(p, "active", Null)
  \/ \E raw \in CreateInputs : Arrive(p, "create", raw)
  \/ \E name \in ParamNames : Arrive(p, "toggle", name)
  \/ \E name \in ParamNames : Arrive(p, "delete", name)

\* an upload arrives at slot p
UploadRequest(p, folders, orders, batches) ==
  \E name \in folders, first \in orders, batch \in batches :
    ArriveUpload(p, name, first, batch)

\* one turn of the event loop for request p
Handle(p) ==
  \/ Toggle(p)
  \/ CreateStart(p) \/ CreateExists(p) \/ CreateMkdir(p) \/ CreateSave(p)
  \/ DeleteExists(p) \/ DeleteRemove(p)
  \/ ListStart(p) \/ ListReaddir(p) \/ ListStat(p) \/ ListFiles(p)
  \/ ListPush(p)
  \/ ActiveStart(p) \/ ActiveReaddir(p) \/ ActiveStat(p) \/ ActiveFiles(p)
  \/ UploadPart(p) \/ UploadDone(p)
  \/ Close(p)

\* requests one after the other: a request arrives when none is in flight
Next ==
  \/ Tick
  \/ Handle(1)
  \/ AllIdle /\ FolderRequest(1)
  \/ AllIdle /\ UploadRequest(1, {FolderA}, {TRUE}, SmallBatches)

Spec == Init /\ [][Next]_vars

DeleteSpec == FollowInit /\ [][Next]_vars

\* the requests that write folders.json, one after the other: creates,
\* toggles and full listings
ConfigRequest(p) ==
  \/ Arrive(p, "list", Null)
  \/ \E raw \in CreateInputs : Arrive(p, "create", raw)
  \/ \E name \in ParamNames : Arrive(p, "toggle", name)

ConfigNext ==
  \/ Tick
  \/ Toggle(1)
  \/ CreateStart(1) \/ CreateExists(1) \/ CreateMkdir(1) \/ CreateSave(1)
  \/ ListStart(1) \/ ListReaddir(1) \/ ListStat(1) \/ ListFiles(1)
  \/ ListPush(1)
  \/ Close(1)
  \/ AllIdle /\ ConfigRequest(1)

ConfigSpec == Init /\ [][ConfigNext]_vars

\* sanitization: a create of any short name over a small alphabet, then
\* creates of the names of the folders there are
NameAlphabet == {"a", "Z", "-", "_", " ", "\t", "!", "/"}

NameStrings == UNION {[1..n -> NameAlphabet] : n \in 0..MaxLen}

SanitizeInit ==
  /\ dirs = [k \in {} |-> {}]
  /\ config = EmptyDoc
  /\ protoActive = FALSE
  /\ clock = 0
  /\ \E raw \in NameStrings :
       req = [p \in Procs |->
                IF p = 1
                THEN [IdleReq EXCEPT !.kind = "create", !.pc = "start",
                                     !.name = raw]
                ELSE IdleReq]
  /\ deleted = [follow |-> FALSE, names |-> {}, snapshots |-> FALSE]
  /\ others = [k \in {} |-> {}]
  /\ jsonFile = "ok"

SanitizeNext ==
  \/ CreateStart(1) \/ CreateExists(1) \/ CreateMkdir(1) \/ CreateSave(1)
  \/ Close(1)
  \/ AllIdle /\ \E name \in DOMAIN dirs : Arrive(1, "create", name)

SanitizeSpec == SanitizeInit /\ [][SanitizeNext]_vars

\* folder names with path separators: in the folderName of a create or an
\* upload, and (as ..%2Fx) in the :folderName of a toggle or a delete
PathNames == {FolderA, <<".", ".", "/", "x">>, <<"a", "/", "b">>}

PathRequest(p) ==
  \/ Arrive(p, "list", Null)
  \/ \E name \in PathNames :
       \/ Arrive(p, "create", name)
       \/ Arrive(p, "toggle", name)
       \/ Arrive(p, "delete", name)

PathNext ==
  \/ Toggle(1)
  \/ CreateStart(1) \/ CreateExists(1) \/ CreateMkdir(1) \/ CreateSave(1)
  \/ DeleteExists(1) \/ DeleteRemove(1)
  \/ ListStart(1) \/ ListReaddir(1) \/ ListStat(1) \/ ListFiles(1)
  \/ ListPush(1)
  \/ UploadPart(1) \/ UploadDone(1)
  \/ Close(1)
  \/ AllIdle /\ PathRequest(1)
  \/ AllIdle /\ UploadRequest(1, PathNames, BOOLEAN, { <<ImagePng>> })

PathSpec == Init /\ [][PathNext]_vars

\* DELETE /api/folders/..%2Ffolders.json
ConfigName ==
  <<".", ".", "/", "f", "o", "l", "d", "e", "r", "s", ".", "j", "s", "o", "n">>

\* folders.json is lost or damaged behind the server's back
Damage ==
  /\ jsonFile' \in {"missing", "garbled"}
  /\ jsonFile' # jsonFile
  /\ UNCHANGED <<dirs, config, protoActive, clock, req, deleted, others>>

\* the requests that read folders.json, one after the other, while the file
\* comes and goes
LoadRequest(p) ==
  \/ Arrive(p, "list", Null)
  \/ Arrive(p, "current", Null)
  \/ Arrive(p, "delete", ConfigName)
  \/ \E name \in {FolderA, FolderB} :
       \/ Arrive(p, "create", name)
       \/ Arrive(p, "toggle", name)

LoadNext ==
  \/ Damage
  \/ Toggle(1)
  \/ CurrentActive(1)
  \/ CreateStart(1) \/ CreateExists(1) \/ CreateMkdir(1) \/ CreateSave(1)
  \/ DeleteExists(1) \/ DeleteRemove(1)
  \/ ListStart(1) \/ ListReaddir(1) \/ ListStat(1) \/ ListFiles(1)
  \/ ListPush(1)
  \/ Close(1)
  \/ AllIdle /\ LoadRequest(1)

LoadSpec == Init /\ [][LoadNext]_vars

\* the upload workload: every batch, into either folder, with the folderName
\* field before or after the files; listings and deletions in between
UploadNext ==
  \/ Tick
  \/ UploadPart(1) \/ UploadDone(1)
  \/ ListStart(1) \/ ListReaddir(1) \/ ListStat(1) \/ ListFiles(1)
  \/ ListPush(1)
  \/ DeleteExists(1) \/ DeleteRemove(1)
  \/ Close(1)
  \/ AllIdle /\ UploadRequest(1, UploadFolders, BOOLEAN, UploadBatches)
  \/ AllIdle /\ Arrive(1, "list", Null)
  \/ AllIdle /\ \E name \in UploadFolders \cup {DefaultFolder} :
                  Arrive(1, "delete", name)

UploadSpec == Init /\ [][UploadNext]_vars

\* the requests that can be refused, one after the other: creates, deletes
\* and uploads, within one millisecond
RefuseNext ==
  \/ CreateStart(1) \/ CreateExists(1) \/ CreateMkdir(1) \/ CreateSave(1)
  \/ DeleteExists(1) \/ DeleteRemove(1)
  \/ UploadPart(1) \/ UploadDone(1)
  \/ Close(1)
  \/ AllIdle /\ \E raw \in CreateInputs : Arrive(1, "create", raw)
  \/ AllIdle /\ \E name \in ParamNames : Arrive(1, "delete", name)
  \/ AllIdle /\ UploadRequest(1, UploadFolders, {TRUE}, UploadBatches)

RefuseSpec == SnapshotInit /\ [][RefuseNext]_vars

\* overlapping requests: a request arrives at any free slot while the other
\* slot's request is in flight; the interleavings are those of one
\* millisecond (the clock does not advance)
ConcRequest(p) ==
  \/ Arrive(p, "list", Null)
  \/ \E raw \in {FolderA, FolderB} : Arrive(p, "create", raw)
  \/ \E name \in {FolderA, FolderB} : Arrive(p, "toggle", name)

ConcHandle(p) ==
  \/ Toggle(p)
  \/ CreateStart(p) \/ CreateExists(p) \/ CreateMkdir(p) \/ CreateSave(p)
  \/ ListStart(p) \/ ListReaddir(p) \/ ListStat(p) \/ ListFiles(p)
  \/ ListPush(p)
  \/ Close(p)

ConcNext ==
  \/ \E p \in Procs : ConcHandle(p)
  \/ \E p \in Procs : ConcRequest(p)

ConcSpec == Init /\ [][ConcNext]_vars

----------------------------------------------------------------------------
(* Properties *)

\* the handler of the toggle request in slot p runs
ToggleStep(p) ==
  /\ req[p].pc = "start" /\ req[p].kind = "toggle"
  /\ req'[p].pc = "done"

\* a turn of the event loop is run for the request in slot p
Step(p) == req'[p] # req[p]

\* the request in slot p has been answered with status 200
Answered(p, kind) ==
  /\ req[p].pc = "done" /\ req[p].kind = kind
  /\ req[p].resp.status = 200

\* C1: after any sequence of create, toggle, upload, delete and list calls,
\* the persisted document holds at most one record with active = true
C1_AtMostOneActiveRecord == Cardinality(ActiveKeys(config)) <= 1

\* two records, one active and the other deactivated after having been
\* active
C1_Witness ==
  \E a, b \in DOMAIN config :
    /\ a # b
    /\ config[a].active
    /\ ~config[b].active /\ config[b].activatedAt # Unset

\* the record of name is inactive, or name has none and the handler adds one
InactiveRecord(name) ==
  IF name \in DOMAIN config THEN ~config[name].active
  ELSE ~Truthy(config, name)

C3_DeactivateOnlyTarget ==
  [][\A p \in Procs :
       LET name == req[p].name IN
       ToggleStep(p) /\ name \in DOMAIN config /\ config[name].active =>
         /\ DOMAIN config' = DOMAIN config
         /\ ~config'[name].active
         /\ ActiveKeys(config') = {}
         /\ \A k \in DOMAIN config \ {name} : config'[k] = config[k]
         /\ req'[p].resp.status = 200
         /\ req'[p].resp.active = FALSE]_vars

\* a toggle has deactivated a folder while another record, once active
\* itself, is in the document
C3_Witness ==
  \E p \in Procs :
    /\ Answered(p, "toggle")
    /\ ~req[p].resp.active
    /\ req[p].name \in DOMAIN config
    /\ config[req[p].name].deactivatedAt = clock
    /\ \E k \in DOMAIN config \ {req[p].name} :
         config[k].activatedAt # Unset /\ config[k].deactivatedAt # clock

\* the toggle requests in slots p and q overlap: each arrived before the
\* other was answered
TogglesOverlap(p, q) ==
  /\ req[p].kind = "toggle" /\ req[q].kind = "toggle"
  /\ q \in req[p].met

\* both of them have been answered active = true, for different folders
BothActivated(p, q) ==
  /\ TogglesOverlap(p, q)
  /\ Answered(p, "toggle") /\ req[p].resp.active
  /\ Answered(q, "toggle") /\ req[q].resp.active
  /\ req[p].name # req[q].name

\* C4 (as the code has it): toggle calls that overlap do not interleave; while
\* and after two of them are in flight the document holds at most one record
\* with active = true, and each activation reports totalActiveFolders = 1
C4_OverlappingTogglesOneActive ==
  \A p, q \in Procs :
    TogglesOverlap(p, q) =>
      /\ Cardinality(ActiveKeys(config)) <= 1
      /\ Answered(p, "toggle") /\ req[p].resp.active =>
           req[p].resp.totalActiveFolders = 1

\* two overlapping toggles have activated different folders: the later one
\* found the earlier one's folder active and deactivated it
C4_Witness ==
  \E p, q \in Procs :
    /\ BothActivated(p, q)
    /\ req[q].resp.previousActive = req[p].name
    /\ ActiveKeys(config) = {req[q].name}

\* C4 (as stated): two toggle calls executed concurrently interleave between
\* reading and writing the document and leave more than one record with
\* active = true
C4_OverlappingTogglesBothActive ==
  \A p, q \in Procs :
    BothActivated(p, q) => Cardinality(ActiveKeys(config)) > 1

\* C5: for a name of letters, digits, hyphens, underscores and whitespace, a
\* create succeeds when the folder is not there, making the directory and a
\* record with active = false; a create of a name whose sanitized form is
\* there already fails with 400 'Folder already exists' and changes nothing
C5_CreateOnceThenExists ==
  [][\A p \in Procs :
       LET sanitizedName == Sanitize(req[p].name) IN
       /\ Step(p) /\ req[p].pc = "cr_exists" =>
            IF sanitizedName \in DOMAIN dirs
            THEN /\ req'[p].pc = "done"
                 /\ req'[p].resp.status = 400
                 /\ req'[p].resp.text = "Folder already exists"
                 /\ dirs' = dirs /\ config' = config
            ELSE req'[p].pc = "cr_mkdir"
       /\ Step(p) /\ req[p].pc = "cr_mkdir" =>
            sanitizedName \in DOMAIN dirs' /\ req'[p].pc = "cr_save"
       /\ Step(p) /\ req[p].pc = "cr_save" =>
            /\ req'[p].pc = "done"
            /\ req'[p].resp.status = 200
            /\ sanitizedName \in DOMAIN dirs'
            /\ sanitizedName \in DOMAIN config'
            /\ ~config'[sanitizedName].active]_vars

\* C6: after a successful delete of a folder, and until a create or an
\* upload makes it again, its directory and files are gone and no listing,
\* full or active, has an entry for it
C6_DeletedFolderGone ==
  /\ deleted.names \cap DOMAIN dirs = {}
  /\ \A p \in Procs :
       Answered(p, "list") \/ Answered(p, "active") =>
         \A e \in req[p].resp.entries : e.name \notin deleted.names

\* a full listing with entries, answered after the delete of a folder whose
\* record is still in the document, and active
C6_Witness ==
  \E p \in Procs :
    /\ Answered(p, "list")
    /\ req[p].resp.entries # {}
    /\ \E name \in deleted.names :
         name \in DOMAIN config /\ config[name].active

\* C7: after a successful delete of a folder the document holds no record
\* for it
C7_DeleteRemovesRecord ==
  \A p \in Procs :
    Answered(p, "delete") => req[p].name \notin DOMAIN config

\* what GET /api/folders returns when no other request is in flight
FullListing ==
  {Entry(item, dirs[item], ActiveOf(config, item)) : item \in DOMAIN dirs}

\* C8: with no request in progress, the active listing returns exactly the
\* entries of the full listing whose active field is true, with the same
\* name, imageCount and images, and there is at most one of them
C8_ActiveListingOfFull ==
  \A p \in Procs :
    /\ Answered(p, "list") => req[p].resp.entries = FullListing
    /\ Answered(p, "active") =>
         /\ req[p].resp.entries = {e \in FullListing : e.active}
         /\ Cardinality(req[p].resp.entries) <= 1

\* the folder an upload's files go to
UploadTarget(p) ==
  Destination(IF req[p].fieldFirst THEN req[p].name ELSE <<>>)

\* the names under which the files of a batch can be stored
BatchNames(batch) ==
  {StoredName(batch[i].originalname, t) : i \in 1..Len(batch), t \in 0..clock}

\* C9: an upload call with more than ten file parts is rejected with status
\* 400, and none of its files remains stored in the destination folder
C9_TooManyFilesRejected ==
  \A p \in Procs :
    /\ req[p].pc = "done" /\ req[p].kind = "upload"
    /\ Len(req[p].batch) > FileCountLimit
    => /\ req[p].resp.status = 400
       /\ UploadTarget(p) \in DOMAIN dirs =>
            dirs[UploadTarget(p)] \cap BatchNames(req[p].batch) = {}

\* the extensions and the content types of the image allow-list
AllowedExts == {<<".">> \o t : t \in AllowedTypes}

AllowedMimes ==
  {<<"i","m","a","g","e","/">> \o t : t \in AllowedTypes}
    \cup {<<"i","m","a","g","e","/","s","v","g","+","x","m","l">>}

OnAllowList(file) ==
  /\ ToLowerCase(ExtName(file.originalname)) \in AllowedExts
  /\ file.mimetype \in AllowedMimes

\* C10: a file part of an upload is accepted only if its extension and its
\* declared content type are both on the image allow-list; a part failing
\* either makes the call fail with 400 'Only image files are allowed' and is
\* not stored
C10_OnlyImagesAccepted ==
  [][\A p \in Procs :
       /\ Step(p)
       /\ req[p].kind = "upload" /\ req[p].pc \in {"start", "up_part"}
       /\ req[p].parts # <<>>
       /\ Len(req[p].stored) < FileCountLimit
       /\ ~OnAllowList(Head(req[p].parts))
       => /\ req'[p].pc = "done"
          /\ req'[p].resp.status = 400
          /\ req'[p].resp.text = "Only image files are allowed"
          /\ \A k \in DOMAIN dirs' :
               dirs'[k] \subseteq (IF k \in DOMAIN dirs THEN dirs[k] ELSE {})]_vars

\* C14: sanitization is idempotent: for every folder name s of a create
\* request, sanitizing the sanitized name gives the sanitized name
C14_SanitizeIdempotent ==
  \A p \in Procs :
    req[p].kind = "create" =>
      Sanitize(Sanitize(req[p].name)) = Sanitize(req[p].name)

\* a create has been answered with a name from which a character was
\* removed and then, the removal having left it at an end, whitespace
\* trimmed
C14_Witness ==
  \E p \in Procs :
    /\ Answered(p, "create")
    /\ SelectSeq(req[p].name, IsNameChar) # req[p].name
    /\ Trim(req[p].name) = req[p].name
    /\ req[p].resp.folderName # SelectSeq(req[p].name, IsNameChar)

\* C11: for every create, upload, toggle and delete request with any folder
\* name, each directory the request creates or removes is an immediate
\* subdirectory of the upload root: no directory is made or removed anywhere
\* else
C11_NoTraversal == [][DOMAIN others' = DOMAIN others]_vars

\* C12: when folders.json is missing or does not parse, the load gives the
\* empty document and does not raise: toggle, create, GET /api/folders and
\* GET /api/folders/current-active answer as from an empty document, not
\* with a 500
C12_LoadFailsOpen ==
  [][\A p \in Procs :
       LET name == req[p].name IN
       Step(p) /\ jsonFile # "ok" =>
         /\ ToggleStep(p) =>
              /\ req'[p].resp.status = 200
              /\ req'[p].resp.active = TRUE
              /\ req'[p].resp.previousActive = Null
              /\ req'[p].resp.totalActiveFolders = 1
              /\ DOMAIN config' = {name} /\ config'[name].active
         /\ req[p].pc = "cr_save" =>
              /\ req'[p].resp.status = 200
              /\ config' = Assign(EmptyDoc, Sanitize(name), NewRecord(clock))
         /\ req[p].pc = "start" /\ req[p].kind = "list" =>
              /\ req'[p].pc = "ls_readdir"
              /\ req'[p].cfg = EmptyDoc
         /\ req[p].pc = "start" /\ req[p].kind = "current" =>
              /\ req'[p].resp.status = 200
              /\ req'[p].resp.activeFolders = {}
              /\ req'[p].resp.activeFolder = Null
              /\ req'[p].resp.activeCount = 0]_vars

\* a toggle answered from the empty document although the document had
\* held another folder's record before the file was lost: that record is gone
C12_Witness ==
  \E p \in Procs :
    /\ Answered(p, "toggle")
    /\ req[p].resp.active /\ req[p].resp.previousActive = Null
    /\ jsonFile = "ok"
    /\ DOMAIN config = {req[p].name}
    /\ req[p].name \notin DOMAIN dirs /\ DOMAIN dirs # {}

\* the number of files stored anywhere
AllStored(d, o) == StoredCount(d) + StoredCount(o)

\* C13: every file accepted by an upload is stored under a name distinct
\* from every file already in the destination folder and from the other
\* files of the same call: no stored file is overwritten, and each accepted
\* file adds one file
C13_StoredNamesDistinct ==
  [][\A p \in Procs :
       /\ req[p].kind = "upload" /\ req[p].pc \in {"start", "up_part"}
       /\ req'[p].pc = "up_part"
       /\ Len(req'[p].stored) = Len(req[p].stored) + 1
       => AllStored(dirs', others') = AllStored(dirs, others) + 1]_vars

\* C15: for an upload with folderName F, every stored file is written into
\* the folder F of the upload root, whatever the order of the folderName
\* field and the file parts in the body: each /uploads/F/<storedName> of the
\* response names a file that is there
C15_StoredWhereReported ==
  \A p \in Procs :
    Answered(p, "upload") =>
      \A i \in 1..Len(req[p].resp.files) :
        LET path == req[p].resp.files[i].path IN
        /\ path[1] = req[p].name
        /\ path[1] \in DOMAIN dirs
        /\ path[2] \in dirs[path[1]]

\* what the listings report as the active field of a folder
ReportedActive(name) == ActiveOf(config, name)

\* C16: a folder whose directory comes into existence, by a create or by an
\* upload into a name without a directory, is reported with active = false,
\* and stays so until a toggle request for it
C16_StartsInactive ==
  [][\A p \in Procs :
       /\ Step(p) /\ req[p].kind = "upload" =>
            \A name \in DOMAIN dirs' \ DOMAIN dirs : ~ReportedActive(name)'
       /\ Step(p) /\ req[p].pc = "cr_save" /\ req'[p].resp.status = 200 =>
            ~ReportedActive(Sanitize(req[p].name))'
       /\ Step(p) =>
            \A name \in DOMAIN dirs \cap DOMAIN dirs' :
              ~ReportedActive(name) /\ ReportedActive(name)' =>
                ToggleStep(p) /\ req[p].name = name]_vars

\* C17: after a GET /api/folders that no other request overlaps, every
\* directory under the upload root has a record; each record the listing
\* adds has active = false, and the listing removes or changes no record
\* that existed before, with or without a directory
C17_ListingBackfills ==
  [][\A p \in Procs :
       Step(p) /\ req[p].kind = "list" =>
         /\ \A k \in DOMAIN config :
              k \in DOMAIN config' /\ config'[k] = config[k]
         /\ \A k \in DOMAIN config' \ DOMAIN config : ~config'[k].active
         /\ req'[p].pc = "done" /\ req'[p].resp.status = 200 =>
              \A item \in DOMAIN dirs' : item \in DOMAIN config']_vars

\* C18: once a toggle has answered active = true for folder B, the record
\* of B stays active in the persisted document until a toggle or a create
\* changes it: no step of a GET request, started before or after the
\* toggle, reverts the write
C18_ToggleNotReverted ==
  [][\A q \in Procs :
       /\ Answered(q, "toggle") /\ req[q].resp.active
       /\ req[q].name \in DOMAIN config /\ config[req[q].name].active
       /\ \E p \in Procs : Step(p) /\ req[p].kind = "list"
       => /\ req[q].name \in DOMAIN config'
          /\ config'[req[q].name].active]_vars

\* the create requests in slots p and q overlapped, both are answered and
\* their sanitized names are equal
CreatesOverlap(p, q) ==
  /\ p # q /\ q \in req[p].met
  /\ req[p].pc = "done" /\ req[p].kind = "create"
  /\ req[q].pc = "done" /\ req[q].kind = "create"
  /\ Sanitize(req[p].name) = Sanitize(req[q].name)

\* C19: of two overlapping create requests with equal sanitized names, for
\* a folder that one of them creates, exactly one answers "Folder created
\* successfully" and the other answers 400 "Folder already exists"
C19_OverlappingCreatesOneWins ==
  \A p, q \in Procs :
    CreatesOverlap(p, q) /\ req[p].resp.status = 200 =>
      /\ req[q].resp.status = 400
      /\ req[q].resp.text = "Folder already exists"

\* the request in slot p has ended with an error response
Refused(p) == req[p].pc = "done" /\ req[p].resp.status >= 400

\* C20: a request that ends with an error response (create with an empty,
\* invalid or duplicate name; delete of a folder without a directory;
\* upload rejected for file count, file size or file type) leaves the
\* document and the set of directories under the upload root as they were
\* before the request
C20_ErrorLeavesStateAlone ==
  \A p \in Procs :
    Refused(p) /\ req[p].kind \in {"create", "delete", "upload"} =>
      /\ config = req[p].before.config
      /\ DOMAIN dirs = req[p].before.dirs

\* the entry of folder name in a listing of the directories d
ListedEntry(d, name) ==
  Entry(name, IF name \in DOMAIN d THEN d[name] ELSE {}, FALSE)

\* C21: every file the upload handler accepts is counted by the listing:
\* it is stored under a name with one of the listed extensions, so after a
\* successful upload of n files into folder F the imageCount of F is n
\* higher than before and the images list holds the URLs of the files
C21_AcceptedFilesListed ==
  \A p \in Procs :
    Answered(p, "upload") =>
      LET F == req[p].resp.folderName
          files == req[p].resp.files
      IN
      /\ \A i \in 1..Len(files) :
           /\ ToLowerCase(ExtName(files[i].filename)) \in ListedExts
           /\ <<F, files[i].filename>> \in ListedEntry(dirs, F).images
      /\ ListedEntry(dirs, F).imageCount =
           ListedEntry(req[p].before.files, F).imageCount + Len(files)

\* the active listing in slot p is answered in this step
ActiveListed(p) ==
  /\ Step(p) /\ req[p].kind = "active"
  /\ req'[p].pc = "done" /\ req'[p].resp.status = 200

\* C22: with no other request in progress, current-active and the active
\* listing agree: activeCount, the number of active keys of the document,
\* is the number of entries of the active listing, and a name reported as
\* activeFolder has an entry in the listing, hence a directory
C22_ActiveAnswersAgree ==
  [][\A p \in Procs :
       ActiveListed(p) =>
         LET activeFolders == ActiveKeys(getFoldersConfig.doc)'
             entries == req'[p].resp.entries
         IN
         /\ Cardinality(activeFolders) = Cardinality(entries)
         /\ \A F \in activeFolders :
              /\ \E e \in entries : e.name = F
              /\ F \in DOMAIN dirs']_vars

====
